---------------------------- MODULE Spec2Model ----------------------------
(***************************************************************************)
(* A model of antimaia.py: the expectation-weighted Move Selector          *)
(* (AntimaiaPlayer._get_antimaia_move), the Oracle Client of MaiaPlayer    *)
(* (sequential and concurrent dispatch, stream parsing), the evaluation    *)
(* wrapper (_get_stockfish_eval), the Match Runner (GameManager.pit) and   *)
(* GameManager.save.                                                       *)
(*                                                                         *)
(* The Rules Engine and the two oracles are external processes/libraries:  *)
(* their answers are inputs, drawn from the small sets defined below.      *)
(* Likelihoods are kept as whole percents (the code divides the parsed     *)
(* percentage by 100; every expected value of the model is therefore the   *)
(* code's value times 100, which changes no comparison).                   *)
(***************************************************************************)
EXTENDS Integers, Sequences, FiniteSets, Bags, TLC

(***************************************************************************)
(* Bounds of the model.                                                    *)
(***************************************************************************)
\* the longest legal-move list of the root position
MaxMoves == 2

(***************************************************************************)
(* The Rules Engine: a small position graph.                               *)
(*   R       the position a decision is asked about                        *)
(*   F1, F2  fingerprints of first-level positions (after a root move)     *)
(*   G1, G2  fingerprints of follow-up positions (after a reply a or b)    *)
(* Two root moves may lead to the same fingerprint; the replies a and b    *)
(* transpose between F1 and F2.                                            *)
(***************************************************************************)
RootFen == "R"

FirstFens == {"F1", "F2"}

FollowFens == {"G1", "G2"}

Fens == {RootFen} \cup FirstFens \cup FollowFens

MoveNames == <<"m1", "m2", "m3", "m4">>

Replies == {"a", "b"}

\* board.push(reply) followed by board.fen(), for a first-level position
PushReply(fen, mv) ==
    IF fen = "F1"
    THEN (IF mv = "a" THEN "G1" ELSE "G2")
    ELSE (IF mv = "a" THEN "G2" ELSE "G1")

NoMove == "None"

(***************************************************************************)
(* The Evaluation Oracle's answers (Stockfish.get_evaluation): a type and  *)
(* a value, positive for White.                                            *)
(***************************************************************************)
Cp(v) == [type |-> "cp", value |-> v]

Mate(d) == [type |-> "mate", value |-> d]

EvalAnswers == {Cp(-50), Cp(50), Mate(1), Mate(-1)}

\* self.checkmate_weight = 10 * 100
checkmate_weight == 1000

\* _get_stockfish_eval: the pair (value, mate flag) of an oracle answer
_get_stockfish_eval(evaluation) ==
    IF evaluation.type = "mate"
    THEN [val |-> evaluation.value * checkmate_weight, mate |-> TRUE]
    ELSE [val |-> evaluation.value, mate |-> FALSE]

\* ideal_move without its branch for Black
ideal_move_white_only(mate, val, white) ==
    IF ~mate THEN FALSE
    ELSE IF val > 0 /\ white THEN TRUE
    ELSE FALSE

\* a test that takes every mate for ideal, whoever it favours
ideal_move_any_mate(mate, val, white) == mate

\* the nested function ideal_move of _get_antimaia_move
ideal_move(mate, val, white) ==
    IF ~mate THEN FALSE
    ELSE IF val > 0 /\ white THEN TRUE
    ELSE IF val < 0 /\ ~white THEN TRUE
    ELSE FALSE

(***************************************************************************)
(* The Move-Distribution Oracle's stream: the info records of one          *)
(* analysis.  A record with a 'string' entry is a text line; hasP says     *)
(* whether the text holds "P:", numeric whether what stands between "P:"   *)
(* and "%" reads as a number, head is the text before the first "(".       *)
(***************************************************************************)
Stat(mv, p) == [string |-> TRUE, head |-> mv, hasP |-> TRUE, numeric |-> TRUE, pct |-> p]

NodeLine == Stat("node", 100)

NoString == [string |-> FALSE, head |-> "", hasP |-> FALSE, numeric |-> FALSE, pct |-> 0]

Noise == [string |-> TRUE, head |-> "noise", hasP |-> FALSE, numeric |-> FALSE, pct |-> 0]

Streams ==
    { <<>>,
      <<Stat("a", 30), NoString, Stat("b", 60)>>,
      <<NodeLine, Stat("a", 50), Stat("b", 50)>>,
      <<Stat("a", 60), Noise>> }

\* _parse_info: s.split('P:')[1] raises IndexError without "P:", float()
\* raises ValueError on a non-number
_parse_info(s) ==
    IF ~s.hasP THEN [ok |-> FALSE, error |-> "IndexError"]
    ELSE IF ~s.numeric THEN [ok |-> FALSE, error |-> "ValueError"]
    ELSE [ok |-> TRUE, move |-> s.head, pct |-> s.pct]

\* the body of "for info in analysis": infos after one info record, or the
\* exception it raises
ReadInfo(infos, info) ==
    IF ~info.string THEN [ok |-> TRUE, infos |-> infos]
    ELSE LET p == _parse_info(info)
         IN IF ~p.ok THEN [ok |-> FALSE, error |-> p.error]
            ELSE IF p.move # "node"
                 THEN [ok |-> TRUE, infos |-> Append(infos, <<p.move, p.pct>>)]
                 ELSE [ok |-> TRUE, infos |-> infos]

\* sorted(infos, key=lambda x: x[1], reverse=True): stable, descending
RECURSIVE InsertDesc(_, _)
InsertDesc(sorted, x) ==
    IF sorted = <<>> THEN <<x>>
    ELSE IF Head(sorted)[2] >= x[2]
         THEN <<Head(sorted)>> \o InsertDesc(Tail(sorted), x)
         ELSE <<x>> \o sorted

RECURSIVE SortedDesc(_)
SortedDesc(infos) ==
    IF infos = <<>> THEN <<>>
    ELSE InsertDesc(SortedDesc(SubSeq(infos, 1, Len(infos) - 1)), infos[Len(infos)])

(***************************************************************************)
(* Python collections.                                                     *)
(***************************************************************************)
\* list.append in the place of set.add: nothing is deduplicated
ListAppend(B, x) == B (+) SetToBag({x})

\* set.add on a collection kept as a bag: an element already there is not
\* added again
SetAdd(B, x) == IF BagIn(x, B) THEN B ELSE B (+) SetToBag({x})

RECURSIVE SetAddAll(_, _)
SetAddAll(B, xs) ==
    IF xs = <<>> THEN B ELSE SetAddAll(SetAdd(B, Head(xs)), Tail(xs))

\* a dict as a function on its keys
EmptyDict == [k \in {} |-> 0]

\* an assignment that forgets the keys written before
DictSetForget(d, k, v) == [x \in {k} |-> v]

\* d[k] = v
DictSet(d, k, v) == [x \in (DOMAIN d) \cup {k} |-> IF x = k THEN v ELSE d[x]]

\* a float: float('inf'), -float('inf') or a finite number
PosInf == [k |-> "inf", v |-> 0]

NegInf == [k |-> "-inf", v |-> 0]

Fin(n) == [k |-> "fin", v |-> n]

\* a > b on floats
Greater(a, b) ==
    IF a.k = "inf" THEN b.k # "inf"
    ELSE IF a.k = "-inf" THEN FALSE
    ELSE IF b.k = "inf" THEN FALSE
    ELSE IF b.k = "-inf" THEN TRUE
    ELSE a.v > b.v

\* a < b on floats
Less(a, b) == Greater(b, a)

(***************************************************************************)
(* State.                                                                  *)
(***************************************************************************)
VARIABLES
    \* --- one decision of AntimaiaPlayer._get_antimaia_move ---
    pc,                 \* where the decision stands
    parallel,           \* self.parallel
    white,              \* board.turn of the root position
    moves,              \* list(board.legal_moves), in enumeration order
    after,              \* Rules Engine: the fingerprint each root move leads to
    val, mate,          \* the locals val, mate
    best_move, best_score,
    maia_fens, stockfish_fens,
    maia_distributions, stockfish_evals,
    idx,                \* position of "for move in moves" (lines 166-191)
    result,             \* the returned move
    err,                \* the exception that left the decision, or "none"
    sfBest,             \* the answer of stockfish.get_best_move()
    \* --- the Oracle Client ---
    todo,               \* what "for fen in ..." has still to visit
    distributions,      \* the local dict of _call_maia
    tasks,              \* fen -> the coroutine _get_maia_distribution(_async)
    maiaCalls,          \* fen -> engines launched for it in this decision
    sfCalls,            \* fen -> evaluations asked for it in this decision
    \* --- one match of GameManager.pit ---
    pitPc,              \* where pit stands
    stack,              \* board.move_stack
    over,               \* board.is_game_over() of the current position
    w, b,               \* the locals w, b
    move_count,
    asks,               \* the calls of white.move / black.move and their answers
    game,               \* the returned game: its moves, or NoGame
    pitErr,             \* the exception that left pit, or "none"
    \* --- GameManager.save ---
    savePc,             \* where save stands
    files,              \* the file system: path -> content
    dirs,               \* the directories that exist
    savePath,           \* the parameter path
    saveGame,           \* self.game
    saveErr,            \* the exception that left save, or "none"
    saves,              \* calls of save so far
    \* --- _get_stockfish_eval on its own ---
    evPc, evMate, evCp, evOutMate, evOutCp,
    \* --- one call of MaiaPlayer.move ---
    mvPc,               \* where move stands
    mvParallel,         \* self.parallel
    mvFen,              \* the parameter fen
    mvAsked,            \* the positions the Move-Distribution Oracle was asked
    mvQuery,            \* the call of _get_maia_distribution(_async)
    mvDistribution,     \* the local distribution
    mvWeights,          \* the list p handed to np.random.choice
    mvResult,           \* the returned move
    mvErr               \* the exception that left move, or "none"

selVars == <<pc, parallel, white, moves, after, val, mate, best_move, best_score,
             maia_fens, stockfish_fens, maia_distributions, stockfish_evals,
             idx, result, err, sfBest, todo, distributions, tasks, maiaCalls,
             sfCalls>>

pitVars == <<pitPc, stack, over, w, b, move_count, asks, game, pitErr>>

saveVars == <<savePc, files, dirs, savePath, saveGame, saveErr, saves>>

evalVars == <<evPc, evMate, evCp, evOutMate, evOutCp>>

mvVars == <<mvPc, mvParallel, mvFen, mvAsked, mvQuery, mvDistribution, mvWeights,
            mvResult, mvErr>>

vars == <<selVars, pitVars, saveVars, evalVars, mvVars>>

\* what a decision leaves alone
notSel == <<pitVars, saveVars, evalVars, mvVars>>

\* what a match leaves alone
notPit == <<selVars, saveVars, evalVars, mvVars>>

\* what save leaves alone
notSave == <<selVars, pitVars, evalVars, mvVars>>

\* what an evaluation leaves alone
notEval == <<selVars, pitVars, saveVars, mvVars>>

\* what a call of MaiaPlayer.move leaves alone
notMv == <<selVars, pitVars, saveVars, evalVars>>

\* the legal-move lists of the root position: m1..mn, n <= MaxMoves
MoveLists == { SubSeq(MoveNames, 1, n) : n \in 0..MaxMoves }

RangeOf(s) == { s[i] : i \in DOMAIN s }

ZeroCalls == [f \in Fens |-> 0]

\* the state at the call of _get_antimaia_move(fen)
SelInit ==
    /\ pc = "start"
    /\ parallel \in BOOLEAN
    /\ white \in BOOLEAN
    /\ moves \in MoveLists
    /\ after \in [RangeOf(moves) -> FirstFens]
    /\ val = 0 /\ mate = FALSE
    /\ best_move = NoMove /\ best_score = Fin(0)
    /\ maia_fens = EmptyBag /\ stockfish_fens = EmptyBag
    /\ maia_distributions = EmptyDict /\ stockfish_evals = EmptyDict
    /\ idx = 1
    /\ result = NoMove /\ err = "none" /\ sfBest = NoMove
    /\ todo = EmptyBag /\ distributions = EmptyDict /\ tasks = EmptyDict
    /\ maiaCalls = ZeroCalls /\ sfCalls = ZeroCalls

(***************************************************************************)
(* _get_antimaia_move, lines 123-134.                                      *)
(***************************************************************************)
\* lines 123-128: moves[0] of an empty list raises IndexError
Start ==
    /\ pc = "start"
    /\ IF moves = <<>>
       THEN /\ pc' = "error" /\ err' = "IndexError"
            /\ UNCHANGED <<best_move, best_score>>
       ELSE /\ pc' = "root_eval"
            /\ best_move' = moves[1]
            /\ best_score' = IF ~white THEN PosInf ELSE NegInf
            /\ UNCHANGED err
    /\ UNCHANGED <<parallel, white, moves, after, val, mate, maia_fens,
                   stockfish_fens, maia_distributions, stockfish_evals, idx,
                   result, sfBest, todo, distributions, tasks, maiaCalls, sfCalls>>
    /\ UNCHANGED notSel

\* lines 130-134: evaluate the root; on a mate for the side to move return
\* the Evaluation Oracle's best move
RootEval ==
    /\ pc = "root_eval"
    /\ \E evaluation \in EvalAnswers :
         LET e == _get_stockfish_eval(evaluation)
         IN /\ val' = e.val /\ mate' = e.mate
            /\ sfCalls' = [sfCalls EXCEPT ![RootFen] = @ + 1]
            /\ IF ideal_move(e.mate, e.val, white)
               THEN \E bm \in RangeOf(moves) :
                       /\ sfBest' = bm /\ result' = bm /\ pc' = "done"
               ELSE /\ pc' = "collect" /\ UNCHANGED <<sfBest, result>>
    /\ UNCHANGED <<parallel, white, moves, after, best_move, best_score, maia_fens,
                   stockfish_fens, maia_distributions, stockfish_evals, idx,
                   err, todo, distributions, tasks, maiaCalls>>
    /\ UNCHANGED notSel

(***************************************************************************)
(* _get_antimaia_move, lines 136-152: the first-level positions and the    *)
(* Move-Distribution Oracle.                                               *)
(***************************************************************************)
\* the fingerprints after each legal move, in enumeration order
FirstLevel == [i \in DOMAIN moves |-> after[moves[i]]]

\* lines 137-144: maia_fens.add(_fen); stockfish_fens.add(_fen) per move
Collect ==
    /\ pc = "collect"
    /\ maia_fens' = SetAddAll(maia_fens, FirstLevel)
    /\ stockfish_fens' = SetAddAll(stockfish_fens, FirstLevel)
    /\ pc' = "dispatch"
    /\ UNCHANGED <<parallel, white, moves, after, val, mate, best_move, best_score,
                   maia_distributions, stockfish_evals, idx, result, err, sfBest,
                   todo, distributions, tasks, maiaCalls, sfCalls>>
    /\ UNCHANGED notSel

\* a coroutine (or call) of _get_maia_distribution(_async)
Created ==
    [st |-> "created", rest |-> <<>>, infos |-> <<>>, error |-> "none",
     stream |-> <<>>, engine |-> "none"]

\* popen_uci and engine.analysis: the engine process is launched and streams
\* (stream keeps what the oracle answers, rest what is still to be read)
Launched(stream) ==
    [st |-> "running", rest |-> stream, infos |-> <<>>, error |-> "none",
     stream |-> stream, engine |-> "running"]

\* one turn of "for info in analysis" (lines 74-78, 90-94)
AfterInfo(t) ==
    LET r == ReadInfo(t.infos, Head(t.rest))
    IN IF r.ok
       THEN [t EXCEPT !.rest = Tail(t.rest), !.infos = r.infos]
       ELSE [t EXCEPT !.st = "failed", !.error = r.error]

\* lines 80-81: SimpleEngine.quit() ends the engine process; the sorted
\* distribution is returned
Returned(t) ==
    [t EXCEPT !.st = "done", !.infos = SortedDesc(t.infos), !.engine = "quit"]

\* lines 95-96: engine.quit() of the asynchronous engine is a coroutine and
\* is not awaited: it never runs and the process stays; the sorted
\* distribution is returned
ReturnedAsync(t) == [t EXCEPT !.st = "done", !.infos = SortedDesc(t.infos)]

TasksIn(st) == { f \in DOMAIN tasks : tasks[f].st = st }

\* line 152, 61: the sequential branch enters _call_maia(maia_fens)
SeqDispatch ==
    /\ pc = "dispatch" /\ ~parallel
    /\ distributions' = EmptyDict
    /\ todo' = maia_fens
    /\ pc' = "seq_loop"
    /\ UNCHANGED <<parallel, white, moves, after, val, mate, best_move, best_score,
                   maia_fens, stockfish_fens, maia_distributions, stockfish_evals,
                   idx, result, err, sfBest, tasks, maiaCalls, sfCalls>>
    /\ UNCHANGED notSel

\* lines 62-63, 68-73: the next fen of "for fen in fens"; its engine starts
SeqLaunch ==
    /\ pc = "seq_loop"
    /\ \E fen \in BagToSet(todo), stream \in Streams :
         /\ tasks' = DictSet(tasks, fen, Launched(stream))
         /\ maiaCalls' = [maiaCalls EXCEPT ![fen] = @ + 1]
    /\ pc' = "seq_query"
    /\ UNCHANGED <<parallel, white, moves, after, val, mate, best_move, best_score,
                   maia_fens, stockfish_fens, maia_distributions, stockfish_evals,
                   idx, result, err, sfBest, todo, distributions, sfCalls>>
    /\ UNCHANGED notSel

\* lines 74-78: one info record; an exception of _parse_info leaves
\* _call_maia and the decision
SeqRead ==
    /\ pc = "seq_query"
    /\ \E fen \in TasksIn("running") :
         /\ tasks[fen].rest # <<>>
         /\ LET t == AfterInfo(tasks[fen])
            IN /\ tasks' = [tasks EXCEPT ![fen] = t]
               /\ IF t.st = "failed"
                  THEN pc' = "error" /\ err' = t.error
                  ELSE UNCHANGED <<pc, err>>
    /\ UNCHANGED <<parallel, white, moves, after, val, mate, best_move, best_score,
                   maia_fens, stockfish_fens, maia_distributions, stockfish_evals,
                   idx, result, sfBest, todo, distributions, maiaCalls, sfCalls>>
    /\ UNCHANGED notSel

\* lines 80-81, 64: the stream has ended; distributions[fen] = dist
SeqQuit ==
    /\ pc = "seq_query"
    /\ \E fen \in TasksIn("running") :
         /\ tasks[fen].rest = <<>>
         /\ LET t == Returned(tasks[fen])
            IN /\ tasks' = [tasks EXCEPT ![fen] = t]
               /\ distributions' = DictSet(distributions, fen, t.infos)
         /\ todo' = todo (-) SetToBag({fen})
    /\ pc' = "seq_loop"
    /\ UNCHANGED <<parallel, white, moves, after, val, mate, best_move, best_score,
                   maia_fens, stockfish_fens, maia_distributions, stockfish_evals,
                   idx, result, err, sfBest, maiaCalls, sfCalls>>
    /\ UNCHANGED notSel

\* lines 65, 152: the loop is over; maia_distributions = the returned dict
SeqReturn ==
    /\ pc = "seq_loop"
    /\ todo = EmptyBag
    /\ maia_distributions' = distributions
    /\ pc' = "gather_sf"
    /\ UNCHANGED <<parallel, white, moves, after, val, mate, best_move, best_score,
                   maia_fens, stockfish_fens, stockfish_evals, idx, result, err,
                   sfBest, todo, distributions, tasks, maiaCalls, sfCalls>>
    /\ UNCHANGED notSel

\* lines 147-149, 56-57: fens = set(fens); one coroutine per fen is handed
\* to asyncio.gather
ParDispatch ==
    /\ pc = "dispatch" /\ parallel
    /\ tasks' = [f \in BagToSet(maia_fens) |-> Created]
    /\ pc' = "gather"
    /\ UNCHANGED <<parallel, white, moves, after, val, mate, best_move, best_score,
                   maia_fens, stockfish_fens, maia_distributions, stockfish_evals,
                   idx, result, err, sfBest, todo, distributions, maiaCalls, sfCalls>>
    /\ UNCHANGED notSel

\* lines 84-89: a task launches its engine
TaskLaunch ==
    /\ pc = "gather"
    /\ \E fen \in TasksIn("created"), stream \in Streams :
         /\ tasks' = [tasks EXCEPT ![fen] = Launched(stream)]
         /\ maiaCalls' = [maiaCalls EXCEPT ![fen] = @ + 1]
    /\ UNCHANGED <<pc, parallel, white, moves, after, val, mate, best_move,
                   best_score, maia_fens, stockfish_fens, maia_distributions,
                   stockfish_evals, idx, result, err, sfBest, todo, distributions,
                   sfCalls>>
    /\ UNCHANGED notSel

\* lines 90-94: a task reads one info record
TaskRead ==
    /\ pc = "gather"
    /\ \E fen \in TasksIn("running") :
         /\ tasks[fen].rest # <<>>
         /\ tasks' = [tasks EXCEPT ![fen] = AfterInfo(tasks[fen])]
    /\ UNCHANGED <<pc, parallel, white, moves, after, val, mate, best_move,
                   best_score, maia_fens, stockfish_fens, maia_distributions,
                   stockfish_evals, idx, result, err, sfBest, todo, distributions,
                   maiaCalls, sfCalls>>
    /\ UNCHANGED notSel

\* lines 95-96: a task returns [fen, sorted distribution]
TaskQuit ==
    /\ pc = "gather"
    /\ \E fen \in TasksIn("running") :
         /\ tasks[fen].rest = <<>>
         /\ tasks' = [tasks EXCEPT ![fen] = ReturnedAsync(tasks[fen])]
    /\ UNCHANGED <<pc, parallel, white, moves, after, val, mate, best_move,
                   best_score, maia_fens, stockfish_fens, maia_distributions,
                   stockfish_evals, idx, result, err, sfBest, todo, distributions,
                   maiaCalls, sfCalls>>
    /\ UNCHANGED notSel

\* a wait that returns with the first finished task
GatherFirstCompleted == \E f \in DOMAIN tasks : tasks[f].st = "done"

\* asyncio.gather returns once every awaitable has a result
GatherReady == \A f \in DOMAIN tasks : tasks[f].st = "done"

\* a join that keys each result with another task's fen whenever there is
\* one
JoinedSwapped(ts) ==
    [f \in DOMAIN ts |->
        IF \E g \in DOMAIN ts : g # f
        THEN ts[CHOOSE g \in DOMAIN ts : g # f].infos
        ELSE ts[f].infos]

\* line 58: {fen: distribution for fen, distribution in distributions}
Joined(ts) == [f \in DOMAIN ts |-> ts[f].infos]

\* lines 57-58, 149-150: the results are joined into {fen: distribution}
GatherReturn ==
    /\ pc = "gather"
    /\ GatherReady
    /\ maia_distributions' = Joined(tasks)
    /\ pc' = "gather_sf"
    /\ UNCHANGED <<parallel, white, moves, after, val, mate, best_move, best_score,
                   maia_fens, stockfish_fens, stockfish_evals, idx, result, err,
                   sfBest, todo, distributions, tasks, maiaCalls, sfCalls>>
    /\ UNCHANGED notSel

\* asyncio.gather hands the first exception of a task to the awaiting
\* decision, which it leaves
GatherRaise ==
    /\ pc = "gather"
    /\ \E fen \in TasksIn("failed") :
         /\ err' = tasks[fen].error
         /\ pc' = "error"
    /\ UNCHANGED <<parallel, white, moves, after, val, mate, best_move, best_score,
                   maia_fens, stockfish_fens, maia_distributions, stockfish_evals,
                   idx, result, sfBest, todo, distributions, tasks, maiaCalls,
                   sfCalls>>
    /\ UNCHANGED notSel

(***************************************************************************)
(* _get_antimaia_move, lines 154-164: the Evaluation Oracle's batch.       *)
(***************************************************************************)
\* a collection that leaves the follow-up positions out
FollowUpsNone(fen, dist) == <<>>

\* the fingerprints after each (mv, pct) of a distribution of position fen
FollowUps(fen, dist) == [i \in DOMAIN dist |-> PushReply(fen, dist[i][1])]

\* lines 155-160: stockfish_fens.add(fen), then .add(_board.fen()) per pair
RECURSIVE AddItems(_, _, _)
AddItems(B, dists, keys) ==
    IF keys = {} THEN B
    ELSE LET fen == CHOOSE k \in keys : TRUE
         IN AddItems(SetAddAll(SetAdd(B, fen), FollowUps(fen, dists[fen])),
                     dists, keys \ {fen})

GatherSF ==
    /\ pc = "gather_sf"
    /\ stockfish_fens' = AddItems(stockfish_fens, maia_distributions,
                                  DOMAIN maia_distributions)
    /\ todo' = stockfish_fens'
    /\ pc' = "sf_loop"
    /\ UNCHANGED <<parallel, white, moves, after, val, mate, best_move, best_score,
                   maia_fens, maia_distributions, stockfish_evals, idx, result,
                   err, sfBest, distributions, tasks, maiaCalls, sfCalls>>
    /\ UNCHANGED notSel

\* lines 163-164: stockfish_evals[fen] = self._get_stockfish_eval(fen)
SfEval ==
    /\ pc = "sf_loop"
    /\ \E fen \in BagToSet(todo), evaluation \in EvalAnswers :
         /\ stockfish_evals' = DictSet(stockfish_evals, fen,
                                       _get_stockfish_eval(evaluation))
         /\ sfCalls' = [sfCalls EXCEPT ![fen] = @ + 1]
         /\ todo' = todo (-) SetToBag({fen})
    /\ pc' = IF todo' = EmptyBag THEN "select" ELSE "sf_loop"
    /\ UNCHANGED <<parallel, white, moves, after, val, mate, best_move, best_score,
                   maia_fens, stockfish_fens, maia_distributions, idx, result,
                   err, sfBest, distributions, tasks, maiaCalls>>
    /\ UNCHANGED notSel

(***************************************************************************)
(* _get_antimaia_move, lines 166-192: the selection loop.                  *)
(***************************************************************************)
\* lines 176-184: sum(move_results), move_results = [val * pct, ...]
RECURSIVE SumResults(_, _, _)
SumResults(fen, dist, evals) ==
    IF dist = <<>> THEN 0
    ELSE evals[PushReply(fen, Head(dist)[1])].val * Head(dist)[2]
         + SumResults(fen, Tail(dist), evals)

\* the comparisons of lines 186-191 exchanged between the sides
BetterSwapped(score, best, isWhite) ==
    \/ isWhite /\ Less(score, best)
    \/ ~isWhite /\ Greater(score, best)

\* the comparisons of lines 186-191 made non-strict
BetterOrEqual(score, best, isWhite) ==
    \/ isWhite /\ ~Less(score, best)
    \/ ~isWhite /\ ~Greater(score, best)

\* lines 186-191: whether score replaces best_score
Better(score, best, isWhite) ==
    \/ isWhite /\ Greater(score, best)
    \/ ~isWhite /\ Less(score, best)

\* lines 166-191: one turn of "for move in moves"
SelectStep ==
    /\ pc = "select"
    /\ idx <= Len(moves)
    /\ LET move == moves[idx]
           fen == after[move]
       IN IF fen \notin DOMAIN stockfish_evals
          THEN /\ pc' = "error" /\ err' = "KeyError"
               /\ UNCHANGED <<val, mate, result, best_move, best_score, idx>>
          ELSE LET e == stockfish_evals[fen]
               IN IF ideal_move(e.mate, e.val, white)
                  THEN /\ val' = e.val /\ mate' = e.mate
                       /\ result' = move /\ pc' = "done"
                       /\ UNCHANGED <<err, best_move, best_score, idx>>
                  ELSE IF \/ fen \notin DOMAIN maia_distributions
                          \/ \E i \in DOMAIN maia_distributions[fen] :
                               PushReply(fen, maia_distributions[fen][i][1])
                                   \notin DOMAIN stockfish_evals
                  THEN /\ pc' = "error" /\ err' = "KeyError"
                       /\ val' = e.val /\ mate' = e.mate
                       /\ UNCHANGED <<result, best_move, best_score, idx>>
                  ELSE LET dist == maia_distributions[fen]
                           last == IF dist = <<>> THEN e
                                   ELSE stockfish_evals[
                                          PushReply(fen, dist[Len(dist)][1])]
                           score == Fin(SumResults(fen, dist, stockfish_evals))
                       IN /\ val' = last.val /\ mate' = last.mate
                          /\ IF Better(score, best_score, white)
                             THEN best_score' = score /\ best_move' = move
                             ELSE UNCHANGED <<best_score, best_move>>
                          /\ idx' = idx + 1
                          /\ UNCHANGED <<pc, err, result>>
    /\ UNCHANGED <<parallel, white, moves, after, maia_fens, stockfish_fens,
                   maia_distributions, stockfish_evals, sfBest, todo,
                   distributions, tasks, maiaCalls, sfCalls>>
    /\ UNCHANGED notSel

\* line 192: return best_move
SelectReturn ==
    /\ pc = "select"
    /\ idx > Len(moves)
    /\ result' = best_move
    /\ pc' = "done"
    /\ UNCHANGED <<parallel, white, moves, after, val, mate, best_move, best_score,
                   maia_fens, stockfish_fens, maia_distributions, stockfish_evals,
                   idx, err, sfBest, todo, distributions, tasks, maiaCalls, sfCalls>>
    /\ UNCHANGED notSel

SelNext ==
    \/ Start \/ RootEval \/ Collect
    \/ SeqDispatch \/ SeqLaunch \/ SeqRead \/ SeqQuit \/ SeqReturn
    \/ ParDispatch \/ TaskLaunch \/ TaskRead \/ TaskQuit
    \/ GatherReturn \/ GatherRaise
    \/ GatherSF \/ SfEval \/ SelectStep \/ SelectReturn


(***************************************************************************)
(* GameManager.pit, lines 222-255.  The selectors are any two Players:     *)
(* each call answers a move or None.  Whether a position is over is the    *)
(* Rules Engine's answer; a game is over at the latest after MaxPlies      *)
(* half-moves.                                                             *)
(***************************************************************************)
MaxPlies == 4

PitMoves == {"e", "d"}

NoGame == <<"no game">>

PitInit ==
    /\ pitPc = "loop"
    /\ stack = <<>>
    /\ over = FALSE
    /\ w = NoMove /\ b = NoMove
    /\ move_count = 1
    /\ asks = <<>>
    /\ game = NoGame
    /\ pitErr = "none"

PitIdle ==
    /\ pitPc = "idle"
    /\ stack = <<>>
    /\ over = FALSE
    /\ w = NoMove /\ b = NoMove
    /\ move_count = 1
    /\ asks = <<>>
    /\ game = NoGame
    /\ pitErr = "none"

\* line 226: while not board.is_game_over()
PitLoop ==
    /\ pitPc = "loop"
    /\ pitPc' = IF over THEN "finish" ELSE "white_ask"
    /\ UNCHANGED <<stack, over, w, b, move_count, asks, game, pitErr>>
    /\ UNCHANGED notPit

\* line 227: w = await self.white.move(board.fen())
WhiteMove ==
    /\ pitPc = "white_ask"
    /\ \E m \in PitMoves \cup {NoMove} :
         /\ w' = m
         /\ asks' = Append(asks, <<"white", m>>)
    /\ pitPc' = "white_push"
    /\ UNCHANGED <<stack, over, b, move_count, game, pitErr>>
    /\ UNCHANGED notPit

\* board.push(move) of the Rules Engine reads move.from_square: on None it
\* raises AttributeError; on a move the new position is over or not
PushRaises(move) == move = NoMove

\* a break test that forgets the terminal position
BreakOnNoMoveOnly(move, isOver) == move = NoMove

\* lines 230, 241: if not w or board.is_game_over(): break
BreakAfter(move, isOver) == move = NoMove \/ isOver

\* lines 228-233: board.push(w); if not w or board.is_game_over(): break
WhitePush ==
    /\ pitPc = "white_push"
    /\ IF PushRaises(w)
       THEN /\ pitPc' = "error" /\ pitErr' = "AttributeError"
            /\ UNCHANGED <<stack, over>>
       ELSE /\ stack' = Append(stack, w)
            /\ \E o \in BOOLEAN :
                 /\ (Len(stack') >= MaxPlies => o)
                 /\ over' = o
            /\ pitPc' = IF BreakAfter(w, over') THEN "finish" ELSE "black_ask"
            /\ UNCHANGED pitErr
    /\ UNCHANGED <<w, b, move_count, asks, game>>
    /\ UNCHANGED notPit

\* line 235: b = await self.black.move(board.fen())
BlackMove ==
    /\ pitPc = "black_ask"
    /\ \E m \in PitMoves \cup {NoMove} :
         /\ b' = m
         /\ asks' = Append(asks, <<"black", m>>)
    /\ pitPc' = "black_push"
    /\ UNCHANGED <<stack, over, w, move_count, game, pitErr>>
    /\ UNCHANGED notPit

\* lines 236-245: board.push(b); if not b or board.is_game_over(): break;
\* move_count += 1
BlackPush ==
    /\ pitPc = "black_push"
    /\ IF PushRaises(b)
       THEN /\ pitPc' = "error" /\ pitErr' = "AttributeError"
            /\ UNCHANGED <<stack, over, move_count>>
       ELSE /\ stack' = Append(stack, b)
            /\ \E o \in BOOLEAN :
                 /\ (Len(stack') >= MaxPlies => o)
                 /\ over' = o
            /\ IF BreakAfter(b, over')
               THEN pitPc' = "finish" /\ UNCHANGED move_count
               ELSE pitPc' = "loop" /\ move_count' = move_count + 1
            /\ UNCHANGED pitErr
    /\ UNCHANGED <<w, b, asks, game>>
    /\ UNCHANGED notPit

\* lines 246-255: game = chess.pgn.Game.from_board(board); return game
PitReturn ==
    /\ pitPc = "finish"
    /\ game' = stack
    /\ pitPc' = "done"
    /\ UNCHANGED <<stack, over, w, b, move_count, asks, pitErr>>
    /\ UNCHANGED notPit

PitNext ==
    \/ PitLoop \/ WhiteMove \/ WhitePush \/ BlackMove \/ BlackPush \/ PitReturn

(***************************************************************************)
(* GameManager.save, lines 257-273.  Neither filename nor random is bound  *)
(* anywhere in the file, so line 263 raises NameError and lines 264-268    *)
(* are never reached.                                                      *)
(***************************************************************************)
MaxSaves == 2

Paths == {"a.pgn", "games/a.pgn", "games/b.pgn"}

\* '/'.join(path.split('/')[:-1])
Parent(path) == IF path = "a.pgn" THEN "" ELSE "games"

Games == {"g1", "g2"}

SaveInit ==
    /\ savePc = "idle"
    /\ \E occupied \in SUBSET Paths :
         /\ files = [q \in occupied |-> "g0"]
         /\ dirs = {""} \cup { Parent(q) : q \in occupied }
    /\ savePath = "" /\ saveGame = "g0"
    /\ saveErr = "none"
    /\ saves = 0

SaveIdle ==
    /\ savePc = "off"
    /\ files = EmptyDict /\ dirs = {""}
    /\ savePath = "" /\ saveGame = "g0"
    /\ saveErr = "none"
    /\ saves = 0

\* line 257: save(path) is called on a manager holding a game
SaveCall ==
    /\ savePc = "idle"
    /\ saves < MaxSaves
    /\ \E path \in Paths, g \in Games :
         /\ savePath' = path
         /\ saveGame' = g
    /\ saves' = saves + 1
    /\ savePc' = "check"
    /\ UNCHANGED <<files, dirs, saveErr>>
    /\ UNCHANGED notSave

\* Path(path).is_file()
is_file(path) == path \in DOMAIN files

\* lines 261-263: on an occupied path, original_path = filename raises
SaveCheck ==
    /\ savePc = "check"
    /\ IF is_file(savePath)
       THEN savePc' = "error" /\ saveErr' = "NameError"
       ELSE savePc' = "write" /\ UNCHANGED saveErr
    /\ UNCHANGED <<files, dirs, savePath, saveGame, saves>>
    /\ UNCHANGED notSave

\* lines 270-273: mkdir(parents=True, exist_ok=True); write str(self.game)
SaveWrite ==
    /\ savePc = "write"
    /\ dirs' = dirs \cup {Parent(savePath)}
    /\ files' = DictSet(files, savePath, saveGame)
    /\ savePc' = "idle"
    /\ UNCHANGED <<savePath, saveGame, saveErr, saves>>
    /\ UNCHANGED notSave

SaveNext == SaveCall \/ SaveCheck \/ SaveWrite

(***************************************************************************)
(* _get_stockfish_eval, lines 194-200, applied to one mate answer and one  *)
(* centipawn answer of the Evaluation Oracle.                              *)
(***************************************************************************)
\* the largest mate distance drawn
MaxMate == 3

\* centipawn scores are drawn in steps of 250, up to MaxCpSteps steps
MaxCpSteps == 6

MateAnswers == { Mate(d) : d \in (-MaxMate..MaxMate) \ {0} }

CpAnswers == { Cp(c * 250) : c \in -MaxCpSteps..MaxCpSteps }

NoEval == [val |-> 0, mate |-> FALSE]

EvalInit ==
    /\ evPc = "mate"
    /\ evMate \in MateAnswers
    /\ evCp \in CpAnswers
    /\ evOutMate = NoEval /\ evOutCp = NoEval

EvalIdle ==
    /\ evPc = "off"
    /\ evMate = Mate(1) /\ evCp = Cp(0)
    /\ evOutMate = NoEval /\ evOutCp = NoEval

EvalMate ==
    /\ evPc = "mate"
    /\ evOutMate' = _get_stockfish_eval(evMate)
    /\ evPc' = "cp"
    /\ UNCHANGED <<evMate, evCp, evOutCp>>
    /\ UNCHANGED notEval

EvalCp ==
    /\ evPc = "cp"
    /\ evOutCp' = _get_stockfish_eval(evCp)
    /\ evPc' = "done"
    /\ UNCHANGED <<evMate, evCp, evOutMate>>
    /\ UNCHANGED notEval

EvalNext == EvalMate \/ EvalCp

\* a decision that is not running
SelIdle ==
    /\ pc = "idle"
    /\ parallel = FALSE /\ white = TRUE
    /\ moves = <<>> /\ after = EmptyDict
    /\ val = 0 /\ mate = FALSE
    /\ best_move = NoMove /\ best_score = Fin(0)
    /\ maia_fens = EmptyBag /\ stockfish_fens = EmptyBag
    /\ maia_distributions = EmptyDict /\ stockfish_evals = EmptyDict
    /\ idx = 1
    /\ result = NoMove /\ err = "none" /\ sfBest = NoMove
    /\ todo = EmptyBag /\ distributions = EmptyDict /\ tasks = EmptyDict
    /\ maiaCalls = ZeroCalls /\ sfCalls = ZeroCalls

(***************************************************************************)
(* MaiaPlayer.move, lines 28-47: the Sampling Selector.  The oracle's       *)
(* stream is any sequence of at most MaxLines lines that names no move     *)
(* twice.                                                                  *)
(***************************************************************************)
MaxLines == 2

LineAlphabet ==
    {Stat("a", 30), Stat("a", 0), Stat("b", 60), Stat("b", 0), NodeLine, Noise}

SampleStreams ==
    { s \in UNION { [1..n -> LineAlphabet] : n \in 0..MaxLines } :
        \A i, j \in DOMAIN s : (i # j /\ s[i].head = s[j].head) => s[i].head = "node" }

MvInit ==
    /\ mvPc = "start"
    /\ mvParallel \in BOOLEAN
    /\ mvFen \in FirstFens
    /\ mvAsked = <<>>
    /\ mvQuery = Created
    /\ mvDistribution = <<>>
    /\ mvWeights = <<>>
    /\ mvResult = NoMove
    /\ mvErr = "none"

MvIdle ==
    /\ mvPc = "off"
    /\ mvParallel = FALSE
    /\ mvFen = RootFen
    /\ mvAsked = <<>>
    /\ mvQuery = Created
    /\ mvDistribution = <<>>
    /\ mvWeights = <<>>
    /\ mvResult = NoMove
    /\ mvErr = "none"

\* lines 31-34 with 68-73 or 84-89: the one query, for fen; its engine starts
MoveQuery ==
    /\ mvPc = "start"
    /\ \E stream \in SampleStreams : mvQuery' = Launched(stream)
    /\ mvAsked' = Append(mvAsked, mvFen)
    /\ mvPc' = "query"
    /\ UNCHANGED <<mvParallel, mvFen, mvDistribution, mvWeights, mvResult, mvErr>>
    /\ UNCHANGED notMv

\* lines 74-78 or 90-94: one info record
MoveRead ==
    /\ mvPc = "query"
    /\ mvQuery.rest # <<>>
    /\ mvQuery' = AfterInfo(mvQuery)
    /\ IF mvQuery'.st = "failed"
       THEN mvPc' = "error" /\ mvErr' = mvQuery'.error
       ELSE UNCHANGED <<mvPc, mvErr>>
    /\ UNCHANGED <<mvParallel, mvFen, mvAsked, mvDistribution, mvWeights, mvResult>>
    /\ UNCHANGED notMv

\* lines 80-81 or 95-96, then 32/34: fen, distribution = the query's result
MoveQuit ==
    /\ mvPc = "query"
    /\ mvQuery.rest = <<>>
    /\ mvQuery' = IF mvParallel THEN ReturnedAsync(mvQuery) ELSE Returned(mvQuery)
    /\ mvDistribution' = mvQuery'.infos
    /\ mvPc' = "check"
    /\ UNCHANGED <<mvParallel, mvFen, mvAsked, mvWeights, mvResult, mvErr>>
    /\ UNCHANGED notMv

\* a test that takes a single pair for no distribution
IsEmptyOrSingle(distribution) == Len(distribution) < 2

\* line 36: len(distribution) < 1
IsEmpty(distribution) == Len(distribution) < 1

\* lines 36-37: return None on an empty distribution
MoveCheck ==
    /\ mvPc = "check"
    /\ IF IsEmpty(mvDistribution)
       THEN mvResult' = NoMove /\ mvPc' = "done"
       ELSE mvPc' = "sample" /\ UNCHANGED mvResult
    /\ UNCHANGED <<mvParallel, mvFen, mvAsked, mvQuery, mvDistribution, mvWeights,
                   mvErr>>
    /\ UNCHANGED notMv

\* line 45: norm = sum(probs)
RECURSIVE SumProbs(_)
SumProbs(distribution) ==
    IF distribution = <<>> THEN 0
    ELSE Head(distribution)[2] + SumProbs(Tail(distribution))

\* line 46: [x/norm for x in probs], each weight kept as the fraction
\* <<x, norm>>
Normalized(distribution, norm) ==
    [i \in DOMAIN distribution |-> <<distribution[i][2], norm>>]

\* lines 44-47: normalize and draw; x/norm raises ZeroDivisionError when
\* norm is 0; np.random.choice draws a move of positive weight
MoveSample ==
    /\ mvPc = "sample"
    /\ LET norm == SumProbs(mvDistribution)
       IN IF norm = 0
          THEN /\ mvPc' = "error" /\ mvErr' = "ZeroDivisionError"
               /\ UNCHANGED <<mvWeights, mvResult>>
          ELSE /\ mvWeights' = Normalized(mvDistribution, norm)
               /\ \E i \in DOMAIN mvDistribution :
                    /\ mvWeights'[i][1] > 0
                    /\ mvResult' = mvDistribution[i][1]
               /\ mvPc' = "done"
               /\ UNCHANGED mvErr
    /\ UNCHANGED <<mvParallel, mvFen, mvAsked, mvQuery, mvDistribution>>
    /\ UNCHANGED notMv

MvNext == MoveQuery \/ MoveRead \/ MoveQuit \/ MoveCheck \/ MoveSample

(***************************************************************************)
(* Specifications: one decision; one match; saves; evaluations; one call   *)
(* of the Sampling Selector.                                               *)
(***************************************************************************)
Init == SelInit /\ PitIdle /\ SaveIdle /\ EvalIdle /\ MvIdle

Spec == Init /\ [][SelNext]_vars

InitPit == SelIdle /\ PitInit /\ SaveIdle /\ EvalIdle /\ MvIdle

SpecPit == InitPit /\ [][PitNext]_vars

InitSave == SelIdle /\ PitIdle /\ SaveInit /\ EvalIdle /\ MvIdle

SpecSave == InitSave /\ [][SaveNext]_vars

InitEval == SelIdle /\ PitIdle /\ SaveIdle /\ EvalInit /\ MvIdle

SpecEval == InitEval /\ [][EvalNext]_vars

InitMaia == SelIdle /\ PitIdle /\ SaveIdle /\ EvalIdle /\ MvInit

SpecMaia == InitMaia /\ [][MvNext]_vars

(***************************************************************************)
(* Properties.                                                             *)
(***************************************************************************)
\* the distinct fingerprints of the first-level positions
FirstLevelSet == { after[m] : m \in RangeOf(moves) }

\* an evaluation reports a mate that favours the side isWhite
MateFavours(e, isWhite) ==
    e.mate /\ ((isWhite /\ e.val > 0) \/ (~isWhite /\ e.val < 0))

\* the Move-Distribution phase of the decision is behind it
AfterMaia == pc \in {"gather_sf", "sf_loop", "select", "done"} /\ sfBest = NoMove

\* the decision returned from the selection loop, no shortcut taken or open
NoShortcutDone ==
    /\ pc = "done" /\ sfBest = NoMove
    /\ \A i \in DOMAIN moves : ~MateFavours(stockfish_evals[after[moves[i]]], white)

RECURSIVE WeightedSum(_, _, _)
WeightedSum(fen, dist, S) ==
    IF S = {} THEN 0
    ELSE LET i == CHOOSE j \in S : TRUE
         IN dist[i][2] * stockfish_evals[PushReply(fen, dist[i][1])].val
            + WeightedSum(fen, dist, S \ {i})

\* the expected value of a root move: the sum over the pairs of its
\* first-level distribution of likelihood times follow-up evaluation
ExpectedValue(m) ==
    LET fen == after[m]
        dist == maia_distributions[fen]
    IN WeightedSum(fen, dist, DOMAIN dist)

\* the positions in the enumeration of the moves of best expected value
BestIdx ==
    { i \in DOMAIN moves :
        \A j \in DOMAIN moves :
            IF white THEN ExpectedValue(moves[i]) >= ExpectedValue(moves[j])
                     ELSE ExpectedValue(moves[i]) <= ExpectedValue(moves[j]) }

MinOf(S) == CHOOSE i \in S : \A j \in S : i <= j

\* C1: whenever the evaluation of the root reports a mate for the side to
\* move, that very step ends the decision with the Evaluation Oracle's
\* recommended move, and no engine of the Move-Distribution Oracle has been
\* launched (the decision is over, so none is launched later either).
C1_RootMateShortcut ==
    [][(pc = "root_eval" /\ mate' /\ ((white /\ val' > 0) \/ (~white /\ val' < 0)))
        => /\ pc' = "done"
           /\ result' = sfBest' /\ result' \in RangeOf(moves)
           /\ maiaCalls' = ZeroCalls /\ tasks' = EmptyDict]_vars

C1_Witness ==
    /\ pc = "done" /\ mate /\ ~white /\ val < 0 /\ parallel
    /\ sfBest # NoMove /\ result = sfBest /\ maiaCalls = ZeroCalls

\* C2 (as claimed): a decision on a position without legal moves ends
\* normally and returns NoMove.
C2_NoLegalMoveReturnsNoMove ==
    (moves = <<>> /\ pc # "start")
        => (pc = "done" /\ result = NoMove /\ err = "none")

\* the moves among the first n answers of the selectors
RECURSIVE MovesPlayed(_)
MovesPlayed(n) ==
    IF n = 0 THEN <<>>
    ELSE IF asks[n][2] = NoMove THEN MovesPlayed(n - 1)
         ELSE Append(MovesPlayed(n - 1), asks[n][2])

\* C3 (as claimed): once a selector has answered NoMove, the match ends
\* without an error, no selector is asked again, and the returned record
\* holds exactly the moves played before.
C3_NoMoveEndsMatch ==
    (\E n \in DOMAIN asks : asks[n][2] = NoMove)
        => /\ asks[Len(asks)][2] = NoMove
           /\ pitErr = "none"
           /\ pitPc \in {"white_push", "black_push", "finish", "done"}
           /\ stack = MovesPlayed(Len(asks) - 1)
           /\ (pitPc = "done" => game = MovesPlayed(Len(asks) - 1))

\* C4: in a decision, no fingerprint ever has more than one engine of the
\* Move-Distribution Oracle launched for it, in either mode; an engine is
\* launched only for a first-level fingerprint and only once the collection
\* of first-level fingerprints is complete; and when the distributions are
\* handed to the decision every first-level fingerprint has had exactly one.
C4_MaiaOncePerFingerprint ==
    /\ \A f \in Fens : maiaCalls[f] <= 1
    /\ \A f \in Fens :
         maiaCalls[f] > 0 => (f \in FirstLevelSet /\ BagToSet(maia_fens) = FirstLevelSet)
    /\ AfterMaia => \A f \in FirstLevelSet : maiaCalls[f] = 1

C4_Witness ==
    /\ AfterMaia /\ pc = "done" /\ ~parallel
    /\ Len(moves) >= 2 /\ after[moves[1]] = after[moves[2]]
    /\ maiaCalls[after[moves[1]]] = 1

\* C5: a decision that returns with no mate shortcut at the root or at a
\* first-level position returns a legal move whose expected value (raw
\* likelihoods) is the maximum over the legal moves for White, the minimum
\* for Black.
C5_BestExpectedValue ==
    NoShortcutDone
        => /\ result \in RangeOf(moves)
           /\ \A m \in RangeOf(moves) :
                IF white THEN ExpectedValue(result) >= ExpectedValue(m)
                         ELSE ExpectedValue(result) <= ExpectedValue(m)

C5_Witness ==
    /\ NoShortcutDone /\ white
    /\ result = moves[Len(moves)]
    /\ \E m \in RangeOf(moves) : ExpectedValue(m) < ExpectedValue(result)

\* C6: when no mate shortcut applies and several legal moves share the best
\* expected value, the returned move is the earliest of them in the
\* enumeration of the legal moves.
C6_TieKeepsEarliest ==
    (NoShortcutDone /\ Cardinality(BestIdx) >= 2)
        => result = moves[MinOf(BestIdx)]

C6_Witness ==
    /\ NoShortcutDone /\ Cardinality(BestIdx) >= 2
    /\ after[moves[1]] # after[moves[2]]
    /\ maia_distributions[after[moves[1]]] # <<>>
    /\ ExpectedValue(moves[1]) # 0
    /\ result = moves[1]

Abs(n) == IF n < 0 THEN -n ELSE n

Sign(n) == IF n < 0 THEN -1 ELSE IF n > 0 THEN 1 ELSE 0

\* C7 (as claimed): the evaluation returned for a mate answer is larger in
\* magnitude than the one returned for any centipawn answer, and carries
\* the sign of the mate.
C7_MateDominatesCentipawns ==
    evPc = "done"
        => /\ evOutMate.mate /\ ~evOutCp.mate
           /\ Sign(evOutMate.val) = Sign(evMate.value)
           /\ Abs(evOutMate.val) > Abs(evOutCp.val)

\* C8 (as claimed): a save to an occupied path surfaces no error to the
\* caller: no call of save ends in an exception.
C8_CollisionIsRecovered ==
    /\ savePc # "error"
    /\ saveErr = "none"

\* C9 (as claimed): no query of the Move-Distribution Oracle fails on a
\* line of its stream; lines that do not parse are dropped.
C9_NoiseIsDiscarded ==
    \A f \in DOMAIN tasks : tasks[f].st # "failed"

\* C10: in concurrent mode the decision holds no distribution mapping at
\* all until the batch is joined, and from then on every task of the batch
\* has completed and the mapping has exactly one entry, the task's result,
\* for each distinct first-level fingerprint.
C10_JoinAfterAllTasks ==
    parallel =>
        IF AfterMaia
        THEN /\ DOMAIN tasks = FirstLevelSet
             /\ \A f \in DOMAIN tasks : tasks[f].st = "done"
             /\ DOMAIN maia_distributions = FirstLevelSet
             /\ \A f \in FirstLevelSet : maia_distributions[f] = tasks[f].infos
        ELSE maia_distributions = EmptyDict

C10_Witness ==
    /\ parallel /\ pc = "gather_sf"
    /\ Cardinality(DOMAIN maia_distributions) = 2
    /\ \E f \in DOMAIN maia_distributions : maia_distributions[f] # <<>>

\* C11 (as claimed): every query of the Move-Distribution Oracle launches
\* exactly one engine process and that process has ended when the query
\* returns, in both modes; when the decision has returned, no engine
\* process it launched is running.
C11_EngineReleasedOnReturn ==
    /\ \A f \in DOMAIN tasks :
         /\ tasks[f].st \in {"running", "done", "failed"} => maiaCalls[f] = 1
         /\ tasks[f].st = "done" => tasks[f].engine = "quit"
    /\ pc = "done" => \A f \in DOMAIN tasks : tasks[f].engine # "running"

\* the selector calls among the first n that answered a move
MovesAnswered == { n \in DOMAIN asks : asks[n][2] # NoMove }

\* C12 (as claimed): the record pit returns has as many moves as selector
\* calls answered a move, and a match whose first selector call answers
\* NoMove ends with a returned record of length 0.
C12_RecordCountsMovesPlayed ==
    /\ pitPc = "done" => Len(game) = Cardinality(MovesAnswered)
    /\ (asks # <<>> /\ asks[1][2] = NoMove /\ pitPc # "white_push")
           => /\ pitPc \in {"finish", "done"}
              /\ stack = <<>>
              /\ (pitPc = "done" => game = <<>>)

\* C13 (as claimed): a match always goes on until it has returned a
\* GameRecord: pit never stops anywhere else.
C13_MatchEndsWithRecord ==
    pitPc = "done" \/ ENABLED PitNext

\* the side to move after n half-moves from the initial position
SideToMove(n) == IF n % 2 = 0 THEN "white" ELSE "black"

\* C18: the selectors are asked in strict alternation starting with White;
\* a selector is asked only when the current position is not terminal and
\* its side is to move; once a half-move has made the position terminal
\* the match is finishing with that half-move recorded and nobody is asked
\* again.
C18_StrictAlternation ==
    /\ \A n \in DOMAIN asks : asks[n][1] = SideToMove(n - 1)
    /\ pitPc \in {"white_push", "black_push"}
         => /\ ~over
            /\ Len(stack) = Len(asks) - 1
            /\ asks[Len(asks)][1] = SideToMove(Len(stack))
            /\ pitPc = (IF SideToMove(Len(stack)) = "white"
                        THEN "white_push" ELSE "black_push")
    /\ pitPc \in {"white_ask", "black_ask"}
         => ~over /\ Len(stack) = Len(asks)
    /\ over => /\ pitPc \in {"finish", "done"}
               /\ Len(asks) = Len(stack)
               /\ asks[Len(asks)][2] = stack[Len(stack)]

C18_Witness ==
    /\ pitPc = "done" /\ over
    /\ Len(game) = 1 /\ Len(asks) = 1 /\ asks[1][1] = "white"

\* C14: a call of the Sampling Selector asks the Move-Distribution Oracle
\* at most once, and once it has asked, exactly once and for the position it
\* was given, in either mode; it returns NoMove exactly when the
\* distribution it got back is empty.
C14_OneQueryNoMoveIffEmpty ==
    /\ Len(mvAsked) <= 1
    /\ mvPc \notin {"start", "off"} => mvAsked = <<mvFen>>
    /\ mvPc \in {"sample", "error"} /\ mvErr = "ZeroDivisionError"
         => mvDistribution # <<>>
    /\ mvPc = "done" => (mvResult = NoMove <=> mvDistribution = <<>>)

C14_Witness ==
    /\ mvPc = "done" /\ mvParallel
    /\ mvQuery.stream # <<>> /\ mvDistribution = <<>> /\ mvResult = NoMove

RECURSIVE SumNumerators(_)
SumNumerators(weights) ==
    IF weights = <<>> THEN 0 ELSE Head(weights)[1] + SumNumerators(Tail(weights))

\* C19 (as claimed): on every non-empty distribution the Sampling Selector
\* ends normally, with weights that sum to 1 and a returned move that is a
\* member of the distribution.
C19_SamplesFromNormalized ==
    (mvPc \in {"done", "error"} /\ mvDistribution # <<>>)
        => /\ mvPc = "done" /\ mvErr = "none"
           /\ mvWeights # <<>>
           /\ mvWeights[1][2] # 0
           /\ SumNumerators(mvWeights) = mvWeights[1][2]
           /\ \E i \in DOMAIN mvDistribution : mvResult = mvDistribution[i][1]

\* the positions in the enumeration of the legal moves whose first-level
\* evaluation reports a mate for the side to move at the root
MateIdx ==
    { i \in DOMAIN moves :
        /\ after[moves[i]] \in DOMAIN stockfish_evals
        /\ MateFavours(stockfish_evals[after[moves[i]]], white) }

\* C15: in a decision without the root shortcut in which some first-level
\* evaluation reports a mate for the side to move, the selection loop never
\* walks past the first such move of the enumeration, and the decision
\* returns that move, whatever the expected values of the moves before it.
C15_FirstMatingMoveWins ==
    (sfBest = NoMove /\ MateIdx # {})
        => /\ pc = "select" => idx <= MinOf(MateIdx)
           /\ pc = "done" => result = moves[MinOf(MateIdx)]

C15_Witness ==
    /\ pc = "done" /\ sfBest = NoMove /\ white
    /\ MateIdx = {2} /\ result = moves[2]
    /\ after[moves[1]] # after[moves[2]]
    /\ ExpectedValue(moves[1]) > 0
    /\ best_move = moves[1]

\* the first-level fingerprints and the follow-up fingerprints of the
\* distributions handed to the decision
BatchFens ==
    FirstLevelSet
      \cup UNION { { PushReply(f, maia_distributions[f][i][1]) :
                       i \in DOMAIN maia_distributions[f] } :
                   f \in DOMAIN maia_distributions }

\* C16: in a decision without the root shortcut, no first-level or
\* follow-up fingerprint is ever evaluated twice, the batch evaluates
\* nothing else, and when the batch is over every first-level and every
\* follow-up fingerprint has been evaluated exactly once.
C16_BatchCoversEachOnce ==
    /\ \A f \in Fens \ {RootFen} :
         /\ sfCalls[f] <= 1
         /\ sfCalls[f] > 0 => (f \in BatchFens /\ pc \in {"sf_loop", "select", "done"})
    /\ (pc \in {"select", "done"} /\ sfBest = NoMove)
         => \A f \in BatchFens : sfCalls[f] = 1

C16_Witness ==
    /\ pc = "done" /\ sfBest = NoMove /\ parallel
    /\ Len(moves) = 2 /\ after[moves[1]] = "F1" /\ after[moves[2]] = "F2"
    /\ \E i \in DOMAIN maia_distributions["F1"], j \in DOMAIN maia_distributions["F2"] :
         /\ PushReply("F1", maia_distributions["F1"][i][1]) = "G1"
         /\ PushReply("F2", maia_distributions["F2"][j][1]) = "G1"
    /\ sfCalls["G1"] = 1 /\ sfCalls["F1"] = 1 /\ sfCalls["F2"] = 1

\* when the selection loop runs, both caches hold every key it will read
CachesPopulated ==
    pc = "select"
        => /\ todo = EmptyBag
           /\ FirstLevelSet \subseteq DOMAIN maia_distributions
           /\ BatchFens \subseteq DOMAIN stockfish_evals

\* an entry of a dict, once written, stays as it is
Kept(d, e) == \A f \in DOMAIN d : f \in DOMAIN e /\ e[f] = d[f]

\* every step writes a cache key only if it was absent, leaves the written
\* keys alone, hands the distributions to the decision once and as a whole,
\* and writes nothing while the selection loop reads
WriteOnce ==
    /\ Kept(stockfish_evals, stockfish_evals')
    /\ Kept(distributions, distributions')
    /\ Kept(maia_distributions, maia_distributions')
    /\ \A f \in Fens \ {RootFen} :
         sfCalls'[f] > sfCalls[f]
             => /\ pc = "sf_loop"
                /\ f \notin DOMAIN stockfish_evals
                /\ DOMAIN stockfish_evals' = DOMAIN stockfish_evals \cup {f}
    /\ \A f \in Fens :
         maiaCalls'[f] > maiaCalls[f]
             => f \notin DOMAIN distributions /\ f \notin DOMAIN maia_distributions
    /\ distributions' # distributions
         => \E f \in Fens : /\ f \notin DOMAIN distributions
                            /\ DOMAIN distributions' = DOMAIN distributions \cup {f}
    /\ maia_distributions' # maia_distributions
         => /\ maia_distributions = EmptyDict
            /\ pc \in {"seq_loop", "gather"} /\ pc' = "gather_sf"
            /\ DOMAIN maia_distributions' = FirstLevelSet
    /\ pc = "select" => UNCHANGED <<maia_distributions, stockfish_evals>>

\* C17: in every decision, in both modes, a cache key is written at most
\* once, both caches are fully populated whenever the selection loop is
\* about to read, and no read ever ends in a missing key (KeyError).
C17_WriteOncePopulateBeforeRead ==
    /\ [](CachesPopulated /\ err # "KeyError")
    /\ [][WriteOnce]_vars

C17_Witness ==
    /\ pc = "done" /\ sfBest = NoMove /\ ~parallel /\ err = "none"
    /\ idx = 3 /\ Len(moves) = 2 /\ after[moves[1]] # after[moves[2]]
    /\ \A f \in FirstLevelSet : Len(maia_distributions[f]) = 2
    /\ DOMAIN stockfish_evals = FirstFens \cup FollowFens

\* an info record that carries the statistics of a move
IsMoveStat(info) == info.string /\ info.hasP /\ info.numeric /\ info.head # "node"

\* the Distribution an oracle answer stands for: its move statistics, by
\* descending likelihood, equal likelihoods in the order of the answer
AnswerOf(stream) ==
    LET stats == SelectSeq(stream, IsMoveStat)
    IN SortedDesc([i \in DOMAIN stats |-> <<stats[i].head, stats[i].pct>>])

\* the move the caches determine, with no regard to the mode: the first
\* mating move if there is one, else the first move of best expected value
Selection ==
    IF MateIdx # {} THEN moves[MinOf(MateIdx)] ELSE moves[MinOf(BestIdx)]

\* C20: whatever the mode and the interleaving of the tasks, the mapping
\* handed to the decision sends every first-level fingerprint to the
\* Distribution of the oracle's answer for that fingerprint, and a decision
\* that returns from the selection loop returns the move that this mapping
\* and the evaluations determine; neither depends on the mode.
C20_DispatchModesAgree ==
    /\ AfterMaia
         => maia_distributions = [f \in FirstLevelSet |-> AnswerOf(tasks[f].stream)]
    /\ (pc = "done" /\ sfBest = NoMove) => result = Selection

C20_Witness ==
    /\ pc = "done" /\ sfBest = NoMove /\ parallel /\ ~white
    /\ Len(moves) = 2 /\ after[moves[1]] = "F2" /\ after[moves[2]] = "F1"
    /\ tasks["F1"].stream # tasks["F2"].stream
    /\ maia_distributions["F1"] # maia_distributions["F2"]
    /\ MateIdx = {} /\ result = moves[2]

=============================================================================
